---- MODULE Spec2Model ----
(***************************************************************************)
(* Industrial Health Dashboard: the threshold alert engine, the ingestion  *)
(* cycle that publishes the latest sample and its trend insights, the      *)
(* trend classifier, the statistics of the report, and the PDF-export      *)
(* guard of the dashboard component (src/unnamed/part_000, second          *)
(* component, lines 1266-3012).                                            *)
(*                                                                         *)
(* Numbers are fixed-point integers in hundredths: 2000 is 20.00, -350 is  *)
(* -3.50.  A JavaScript value is a record [t, v]: t is its type tag and v  *)
(* the number it holds or parses to (0 when it holds none).  The program   *)
(* computes on the IEEE 754 doubles of these numbers; where the rounding   *)
(* of the doubles decides an outcome (a tie of toFixed, a comparison of    *)
(* two quantities that are equal as exact numbers) the model computes the  *)
(* doubles, and it computes on the exact numbers elsewhere.                *)
(*                                                                         *)
(* React scheduling: the state setters called in one handler run are       *)
(* applied together in one render (automatic batching); a function called  *)
(* from a handler reads the state of the render that created the handler   *)
(* (its closure), not the values just set; a passive effect whose          *)
(* dependencies changed runs after the commit and before any other event   *)
(* is handled, except that the awaits of an export may settle while an     *)
(* effect is due.  Wall-clock strings (timestamp, date, lastUpdate) are    *)
(* not part of the state.                                                  *)
(***************************************************************************)
EXTENDS Integers, Sequences, FiniteSets, TLC

\* ---------------------------------------------------------------- bounds
MaxCycles == 2
MaxInflight == 2
MaxRows == 1
MaxExports == 1
MaxPasses == 2
MaxSeries == 6
MaxStatRows == 3

\* ------------------------------------------------------ JavaScript values
Num(v) == [t |-> "number", v |-> v]
Str(v) == [t |-> "string", v |-> v]
Text == [t |-> "text", v |-> 0]
NaNValue == [t |-> "nan", v |-> 0]
Undefined == [t |-> "undefined", v |-> 0]
NullValue == [t |-> "null", v |-> 0]

NaN == [nan |-> TRUE, v |-> 0]

parseFloat(x) ==
    IF x.t \in {"number", "string"} THEN [nan |-> FALSE, v |-> x.v] ELSE NaN

Abs(n) == IF n < 0 THEN -n ELSE n

\* ---------------------------------------------------- JavaScript numbers
\* A JavaScript number is an IEEE 754 double.  Natural numbers of any size
\* are sequences of limbs, least significant first, without leading zeros;
\* a finite double is sgn * man * 2^exp with man of 53 bits, or 0 with the
\* empty man.
LimbBits == 15
LimbBase == 32768

Pow2(k) ==
    << 1, 2, 4, 8, 16, 32, 64, 128, 256, 512, 1024, 2048, 4096, 8192, 16384,
       32768 >>[k + 1]

RECURSIVE BitsOf(_)
BitsOf(n) == IF n = 0 THEN 0 ELSE 1 + BitsOf(n \div 2)

RECURSIVE BigTrim(_)
BigTrim(a) ==
    IF a # <<>> /\ a[Len(a)] = 0 THEN BigTrim(SubSeq(a, 1, Len(a) - 1)) ELSE a

RECURSIVE BigOf(_)
BigOf(n) == IF n = 0 THEN <<>> ELSE << n % LimbBase >> \o BigOf(n \div LimbBase)

RECURSIVE IntOf(_)
IntOf(a) == IF a = <<>> THEN 0 ELSE a[1] + LimbBase * IntOf(Tail(a))

Limb(a, i) == IF i <= Len(a) THEN a[i] ELSE 0
Zeros(k) == [i \in 1..k |-> 0]

RECURSIVE AddFrom(_, _, _, _)
AddFrom(a, b, i, carry) ==
    IF i > Len(a) /\ i > Len(b) THEN (IF carry = 0 THEN <<>> ELSE << carry >>)
    ELSE LET s == Limb(a, i) + Limb(b, i) + carry
         IN  << s % LimbBase >> \o AddFrom(a, b, i + 1, s \div LimbBase)
BigAdd(a, b) == AddFrom(a, b, 1, 0)

\* a - b for a >= b
RECURSIVE SubFrom(_, _, _, _)
SubFrom(a, b, i, borrow) ==
    IF i > Len(a) THEN <<>>
    ELSE LET s == Limb(a, i) - Limb(b, i) - borrow
         IN  IF s < 0 THEN << s + LimbBase >> \o SubFrom(a, b, i + 1, 1)
             ELSE << s >> \o SubFrom(a, b, i + 1, 0)
BigSub(a, b) == BigTrim(SubFrom(a, b, 1, 0))

RECURSIVE CmpFrom(_, _, _)
CmpFrom(a, b, i) ==
    IF i = 0 THEN 0
    ELSE IF Limb(a, i) > Limb(b, i) THEN 1
    ELSE IF Limb(a, i) < Limb(b, i) THEN -1
    ELSE CmpFrom(a, b, i - 1)
BigCmp(a, b) == CmpFrom(a, b, IF Len(a) > Len(b) THEN Len(a) ELSE Len(b))

RECURSIVE MulSmallFrom(_, _, _, _)
MulSmallFrom(a, m, i, carry) ==
    IF i > Len(a) THEN (IF carry = 0 THEN <<>> ELSE << carry >>)
    ELSE LET p == a[i] * m + carry
         IN  << p % LimbBase >> \o MulSmallFrom(a, m, i + 1, p \div LimbBase)

RECURSIVE MulFrom(_, _, _)
MulFrom(a, b, j) ==
    IF j > Len(b) THEN <<>>
    ELSE BigAdd(Zeros(j - 1) \o MulSmallFrom(a, b[j], 1, 0), MulFrom(a, b, j + 1))
BigMul(a, b) == BigTrim(MulFrom(a, b, 1))

\* a * 2^k and floor(a / 2^k)
BigShl(a, k) ==
    BigTrim(Zeros(k \div LimbBits) \o MulSmallFrom(a, Pow2(k % LimbBits), 1, 0))
BigShr(a, k) ==
    LET q == k \div LimbBits
        p == Pow2(k % LimbBits)
        h == Pow2(LimbBits - (k % LimbBits))
        d == IF q >= Len(a) THEN <<>> ELSE SubSeq(a, q + 1, Len(a))
    IN  BigTrim([i \in 1..Len(d) |-> (d[i] \div p) + (Limb(d, i + 1) % p) * h])

BigBits(a) == IF a = <<>> THEN 0 ELSE LimbBits * (Len(a) - 1) + BitsOf(a[Len(a)])

\* One step of long division by b, whose top limb is LimbBase / 2 or more:
\* the digit for the remainder so far followed by the next limb.  The
\* quotient of the two top limbs by the top limb of b is the digit or
\* exceeds it by at most 2.
RECURSIVE DigitFrom(_, _, _, _)
DigitFrom(q, r, b, d) ==
    LET p == BigTrim(MulSmallFrom(b, d, 1, 0))
    IN  IF BigCmp(p, r) <= 0 THEN [q |-> << d >> \o q, r |-> BigSub(r, p)]
        ELSE DigitFrom(q, r, b, d - 1)
DivDigit(hi, limb, b) ==
    IF hi.r = <<>> /\ limb = 0 THEN [q |-> << 0 >> \o hi.q, r |-> <<>>]
    ELSE LET r == << limb >> \o hi.r
             m == Len(b)
             est == (Limb(r, m + 1) * LimbBase + Limb(r, m)) \div b[m]
         IN  DigitFrom(hi.q, r, b, IF est > LimbBase - 1 THEN LimbBase - 1 ELSE est)

\* Long division of the limbs i, i + 1, ... of a by b, from the top limb.
RECURSIVE DivFrom(_, _, _)
DivFrom(a, b, i) ==
    IF i > Len(a) THEN [q |-> <<>>, r |-> <<>>]
    ELSE DivDigit(DivFrom(a, b, i + 1), a[i], b)

\* floor(a / b) and a mod b
DivResult(x, s) == [q |-> BigTrim(x.q), r |-> BigShr(x.r, s)]
BigDivMod(a, b) ==
    LET s == LimbBits - BitsOf(b[Len(b)])
    IN  DivResult(DivFrom(BigShl(a, s), BigShl(b, s), 1), s)

\* floor(sqrt(a)), by Newton's iteration from above
RECURSIVE SqrtFrom(_, _)
SqrtNext(a, x, y) == IF BigCmp(y, x) < 0 THEN SqrtFrom(a, y) ELSE x
SqrtFrom(a, x) == SqrtNext(a, x, BigShr(BigAdd(x, BigDivMod(a, x).q), 1))
BigSqrt(a) ==
    IF a = <<>> THEN <<>> ELSE SqrtFrom(a, BigShl(<< 1 >>, (BigBits(a) + 1) \div 2))

MantissaBits == 53
DZero == [sgn |-> 1, man |-> <<>>, exp |-> 0]

\* The double nearest to sgn * a * 2^e, a tie going to the even mantissa.
\* q, the bits of a above bit sh, or q + 1: the bits of a below bit sh are
\* less than one half of bit sh (-1), one half (0) or more (1), and q + 1 is
\* taken from `least` on.
RoundAt(a, q, sh, least) ==
    IF BigCmp(BigSub(a, BigShl(q, sh)), BigShl(<< 1 >>, sh - 1)) >= least
    THEN BigAdd(q, << 1 >>)
    ELSE q
DNormal(sgn, up, e) ==
    IF BigBits(up) > MantissaBits
    THEN [sgn |-> sgn, man |-> BigShr(up, 1), exp |-> e + 1]
    ELSE [sgn |-> sgn, man |-> up, exp |-> e]
DRound(sgn, a, e) ==
    LET b == BigBits(a)
        sh == b - MantissaBits
        q == BigShr(a, sh)
    IN  IF b = 0 THEN DZero
        ELSE IF b <= MantissaBits
        THEN [sgn |-> sgn, man |-> BigShl(a, MantissaBits - b), exp |-> e - (MantissaBits - b)]
        ELSE DNormal(sgn, RoundAt(a, q, sh, IF q[1] % 2 = 1 THEN 0 ELSE 1), e + sh)

DOfInt(n) == DRound(IF n < 0 THEN -1 ELSE 1, BigOf(IF n < 0 THEN -n ELSE n), 0)
DAbs(x) == [x EXCEPT !.sgn = 1]
DIsZero(x) == x.man = <<>>

\* x + y
\* sx * a * 2^e + sy * b * 2^e
DAddMan(sx, a, sy, b, e) ==
    LET c == BigCmp(a, b)
    IN  DRound(IF sx = sy \/ c > 0 THEN sx ELSE sy,
               IF sx = sy THEN BigAdd(a, b)
               ELSE IF c > 0 THEN BigSub(a, b)
               ELSE BigSub(b, a),
               e)
DAdd(x, y) ==
    IF DIsZero(x) THEN y
    ELSE IF DIsZero(y) THEN x
    ELSE LET e == IF x.exp < y.exp THEN x.exp ELSE y.exp
         IN  DAddMan(x.sgn, BigShl(x.man, x.exp - e), y.sgn, BigShl(y.man, y.exp - e), e)
DSub(x, y) == DAdd(x, [y EXCEPT !.sgn = -y.sgn])

\* x * y
DMul(x, y) ==
    IF DIsZero(x) \/ DIsZero(y) THEN DZero
    ELSE DRound(x.sgn * y.sgn, BigMul(x.man, y.man), x.exp + y.exp)

\* x / y for y other than 0 (a division by 0 gives no double; the code
\* that can make one is modelled where it divides): the quotient of the
\* mantissas to 56 bits or more, and one bit more that says whether
\* anything is left.
DivSticky(d) == BigAdd(BigShl(d.q, 1), IF d.r = <<>> THEN <<>> ELSE << 1 >>)
DDiv(x, y) ==
    IF DIsZero(y) \/ DIsZero(x) THEN DZero
    ELSE DRound(x.sgn * y.sgn, DivSticky(BigDivMod(BigShl(x.man, 56), y.man)),
                x.exp - y.exp - 57)

\* Math.sqrt(x) for x >= 0
SqrtSticky(a, r) == BigAdd(BigShl(r, 1), IF BigMul(r, r) = a THEN <<>> ELSE << 1 >>)
DSqrt(x) ==
    IF DIsZero(x) THEN DZero
    ELSE LET k == IF x.exp % 2 = 0 THEN 58 ELSE 59
             a == BigShl(x.man, k)
         IN  DRound(1, SqrtSticky(a, BigSqrt(a)), ((x.exp - k) \div 2) - 1)

\* x > y
DGreater(x, y) ==
    LET d == DSub(x, y)
    IN  ~DIsZero(d) /\ d.sgn = 1

RECURSIVE Pow10(_)
Pow10(f) == IF f = 0 THEN 1 ELSE 10 * Pow10(f - 1)

\* Number.prototype.toFixed(f) of x, as an integer count of 10^-f: the
\* integer n for which n / 10^f - |x| is closest to 0, the larger n when
\* there are two, with the sign of x.
FixedOf(a, e) ==
    IF e >= 0 THEN IntOf(BigShl(a, e))
    ELSE IntOf(RoundAt(a, BigShr(a, -e), -e, 0))
DToFixed(x, f) ==
    IF DIsZero(x) THEN 0
    ELSE x.sgn * FixedOf(BigMul(x.man, BigOf(Pow10(f))), x.exp)

\* The double of a decimal literal with two decimals, given in hundredths.
DOfHundredths(v) == DDiv(DOfInt(v), DOfInt(100))

\* x.toFixed(f), as a count of 10^-f, of a double x computed by an
\* expression whose exact value is num / den of that unit (den > 0).  The
\* double lies within a few 2^-53 of the exact value in proportion, so when
\* the exact value is no tie, the two have the same nearest count; on a tie
\* the double decides.
toFixedOf(num, den, x, f) ==
    IF 2 * (Abs(num) % den) = den THEN DToFixed(x, f)
    ELSE IF num < 0 THEN -((2 * (-num) + den) \div (2 * den))
    ELSE (2 * num + den) \div (2 * den)

\* Number.prototype.toFixed(1) of the double of a value in hundredths, in
\* tenths: 0.15 is "0.1", 0.25 is "0.3", 19.95 is "19.9".
toFixed1(v) == toFixedOf(v, 10, DOfHundredths(v), 1)

\* Number.prototype.toFixed(2) of a value in hundredths, in hundredths.
toFixed2(v) == v

\* latestValues is null or a sample; null is the empty sequence and a sample
\* s is <<s>>.
Null == <<>>
Sample(oil, ang) == [oilLevel |-> oil, angle |-> ang]

\* A row of the stored series: the eight metrics of lines 1561-1568 (its
\* timestamp and date are wall-clock strings).
Row(t, h, v, c, o, p, e, a) ==
    [ temperature |-> t, humidity |-> h, voltage |-> v, current |-> c,
      oilLevel |-> o, power |-> p, energy |-> e, angle |-> a ]

\* latestValues?.field
Field(lv, name) == IF lv = Null THEN Undefined ELSE lv[1][name]

\* ---------------------------------------------------- the threshold rules
OilThreshold == 2000
AngleLow == -350
AngleHigh == 350

\* OilRule with a tolerance band of 0.05 around the threshold.
OilRuleTolerance(lv, stamp) ==
    LET oilRaw == Field(lv, "oilLevel")
        oilLevel == IF oilRaw # Undefined THEN parseFloat(oilRaw) ELSE NaN
        isBelow == oilLevel.v < OilThreshold
    IN  IF ~oilLevel.nan /\ Abs(oilLevel.v - OilThreshold) > 5
        THEN << [ id |-> [kind |-> "oil", n |-> stamp],
                  metric |-> "Oil Level",
                  severity |-> "critical",
                  message |-> IF isBelow THEN "Oil Level LOW ALERT"
                                         ELSE "Oil Level HIGH ALERT",
                  currentValue |-> toFixed1(oilLevel.v),
                  threshold |-> "20%",
                  description |-> IF isBelow THEN "below threshold 20%"
                                             ELSE "above threshold 20%" ] >>
        ELSE <<>>

\* OilRule without the isNaN test: NaN !== 20 holds and NaN < 20 does not.
OilRuleNoNaNTest(lv, stamp) ==
    LET oilRaw == Field(lv, "oilLevel")
        oilLevel == IF oilRaw # Undefined THEN parseFloat(oilRaw) ELSE NaN
        isBelow == ~oilLevel.nan /\ oilLevel.v < OilThreshold
    IN  IF oilLevel.nan \/ oilLevel.v # OilThreshold
        THEN << [ id |-> [kind |-> "oil", n |-> stamp],
                  metric |-> "Oil Level",
                  severity |-> "critical",
                  message |-> IF isBelow THEN "Oil Level LOW ALERT"
                                         ELSE "Oil Level HIGH ALERT",
                  currentValue |-> toFixed1(oilLevel.v),
                  threshold |-> "20%",
                  description |-> IF isBelow THEN "below threshold 20%"
                                             ELSE "above threshold 20%" ] >>
        ELSE <<>>

OilRule(lv, stamp) ==
    LET oilRaw == Field(lv, "oilLevel")
        oilLevel == IF oilRaw # Undefined THEN parseFloat(oilRaw) ELSE NaN
        isBelow == oilLevel.v < OilThreshold
    IN  IF ~oilLevel.nan /\ oilLevel.v # OilThreshold
        THEN << [ id |-> [kind |-> "oil", n |-> stamp],
                  metric |-> "Oil Level",
                  severity |-> "critical",
                  message |-> IF isBelow THEN "Oil Level LOW ALERT"
                                         ELSE "Oil Level HIGH ALERT",
                  currentValue |-> toFixed1(oilLevel.v),
                  threshold |-> "20%",
                  description |-> IF isBelow THEN "below threshold 20%"
                                             ELSE "above threshold 20%" ] >>
        ELSE <<>>

\* AngleRule with the two bounds of the normal range excluded from it.
AngleRuleInclusive(lv, stamp) ==
    LET angleRaw == Field(lv, "angle")
        angle == IF angleRaw # Undefined THEN parseFloat(angleRaw) ELSE NaN
        isBelow == angle.v <= AngleLow
    IN  IF ~angle.nan /\ (angle.v <= AngleLow \/ angle.v >= AngleHigh)
        THEN << [ id |-> [kind |-> "angle", n |-> stamp],
                  metric |-> "Angle",
                  severity |-> "critical",
                  message |-> IF isBelow THEN "Angle LOW ALERT"
                                         ELSE "Angle HIGH ALERT",
                  currentValue |-> toFixed2(angle.v),
                  threshold |-> "Normal range: -3.5 to 3.5",
                  description |-> IF isBelow THEN "below -3.5 threshold"
                                             ELSE "above 3.5 threshold" ] >>
        ELSE <<>>

AngleRule(lv, stamp) ==
    LET angleRaw == Field(lv, "angle")
        angle == IF angleRaw # Undefined THEN parseFloat(angleRaw) ELSE NaN
        isBelow == angle.v < AngleLow
    IN  IF ~angle.nan /\ (angle.v < AngleLow \/ angle.v > AngleHigh)
        THEN << [ id |-> [kind |-> "angle", n |-> stamp],
                  metric |-> "Angle",
                  severity |-> "critical",
                  message |-> IF isBelow THEN "Angle LOW ALERT"
                                         ELSE "Angle HIGH ALERT",
                  currentValue |-> toFixed2(angle.v),
                  threshold |-> "Normal range: -3.5 to 3.5",
                  description |-> IF isBelow THEN "below -3.5 threshold"
                                             ELSE "above 3.5 threshold" ] >>
        ELSE <<>>

\* The list checkForCriticalAlerts builds from the latestValues it reads.
currentAlerts(lv, stamp) == OilRule(lv, stamp) \o AngleRule(lv, stamp)

\* getMetricAlert(metric, value): the inline indicator of a metric card.
NoAlert == [type |-> "none", message |-> "none"]

\* getMetricAlert with the bounds of the angle range excluded from it.
getMetricAlertInclusive(metric, value) ==
    LET numValue == parseFloat(value)
    IN  IF metric = "Oil Level"
        THEN IF numValue.nan THEN NoAlert
             ELSE IF numValue.v # OilThreshold /\ numValue.v < OilThreshold
                  THEN [type |-> "low", message |-> "Oil Level LOW ALERT"]
             ELSE IF numValue.v # OilThreshold /\ numValue.v > OilThreshold
                  THEN [type |-> "high", message |-> "Oil Level HIGH ALERT"]
             ELSE NoAlert
        ELSE IF metric = "Angle"
        THEN IF numValue.nan THEN NoAlert
             ELSE IF numValue.v <= AngleLow
                  THEN [type |-> "low", message |-> "Angle LOW ALERT"]
             ELSE IF numValue.v >= AngleHigh
                  THEN [type |-> "high", message |-> "Angle HIGH ALERT"]
             ELSE NoAlert
        ELSE NoAlert

getMetricAlert(metric, value) ==
    LET numValue == parseFloat(value)
    IN  IF metric = "Oil Level"
        THEN IF numValue.nan THEN NoAlert
             ELSE IF numValue.v # OilThreshold /\ numValue.v < OilThreshold
                  THEN [type |-> "low", message |-> "Oil Level LOW ALERT"]
             ELSE IF numValue.v # OilThreshold /\ numValue.v > OilThreshold
                  THEN [type |-> "high", message |-> "Oil Level HIGH ALERT"]
             ELSE NoAlert
        ELSE IF metric = "Angle"
        THEN IF numValue.nan THEN NoAlert
             ELSE IF numValue.v < AngleLow
                  THEN [type |-> "low", message |-> "Angle LOW ALERT"]
             ELSE IF numValue.v > AngleHigh
                  THEN [type |-> "high", message |-> "Angle HIGH ALERT"]
             ELSE NoAlert
        ELSE NoAlert

\* ------------------------------------------------------------------ state
VARIABLES
    data,               \* useState([]): the stored series
    loading,            \* useState(true)
    error,              \* useState(null): whether an error message is set
    connectionStatus,   \* useState('Checking...')
    dataSource,         \* useState('Unknown')
    isExportingPDF,     \* useState(false)
    latestValues,       \* useState(null)
    hasFetchedValues,   \* useState(false)
    alerts,             \* useState([])
    showAlertModal,     \* useState(false)
    inflight,           \* fetchGoogleSheetData calls awaiting their response
    interval,           \* what the setInterval callback closes over
    alertEffectPending, \* useEffect([latestValues, hasFetchedValues]) is due
    pollEffectPending,  \* useEffect([isExportingPDF]) is due
    clock,              \* Date.now() + Math.random(): a fresh stamp per pass
    lastOp,             \* history: the operation that ran last
    started,            \* history: who called the fetch it started
    passInput,          \* history: latestValues read by the last pass
    exporting,          \* exportToPDF calls between their first and last line
    dismissedSince,     \* history: a dismissal ran since the last publish
    target,             \* history: the alert whose dismiss button was clicked
    probe,              \* the last call of a pure function and its result
    insights,           \* useState({}): the TrendInsight of each metric
    catalog,            \* sentences an analyzeTrend call finds in the lists of
                        \* its catalog beyond the lines the literal gives them
    priorPush,          \* history: the call before the most recent call (or
                        \* batch of calls) appended a sentence for its metric
    dismissed,          \* history: the stamps of the alerts whose dismissal
                        \* was asked for between the last two publishes, or
                        \* since the last one when dismissedSince
    observing,          \* whether the behaviour records the two histories below
    overtaken,          \* history, per call in flight: a call started after
                        \* it has already completed
    publisher           \* history: whether the call that published last had
                        \* been overtaken

vars == << data, loading, error, connectionStatus, dataSource,
           isExportingPDF, latestValues, hasFetchedValues,
           alerts, showAlertModal, inflight, interval, alertEffectPending,
           pollEffectPending, clock, lastOp, started, passInput,
           exporting, dismissedSince, target, probe, insights,
           catalog, priorPush, dismissed, observing, overtaken, publisher >>

NoProbe == [metric |-> "none", value |-> Undefined, result |-> NoAlert]


\* ------------------------------------------------- ingestion: sheet rows
\* parseFloat(cell) || 0: a cell that does not parse, or parses to 0, is 0.
coerce(cell) ==
    LET p == parseFloat(cell) IN IF p.nan \/ p.v = 0 THEN Num(0) ELSE Num(p.v)

\* One row of the sheet, transformed to the dashboard's keys.
processRow(row) ==
    Row(coerce(row.temperature), coerce(row.humidity), coerce(row.voltage),
        coerce(row.current), coerce(row.oilLevel), coerce(row.power),
        coerce(row.energy), coerce(row.angle))

processedData(rows) == [i \in 1..Len(rows) |-> processRow(rows[i])]

\* Rows the sheet is taken to hold (an empty cell is null): one within
\* every threshold and one that breaches both.
SheetRows ==
    { [ temperature |-> Num(2500), humidity |-> Num(6000), voltage |-> Num(950),
        current |-> Num(12000), oilLevel |-> Num(2000), power |-> Num(150000),
        energy |-> NullValue, angle |-> Num(0) ],
      [ temperature |-> Num(2600), humidity |-> Num(5800), voltage |-> Num(950),
        current |-> NullValue, oilLevel |-> NullValue, power |-> Num(80000),
        energy |-> Num(5), angle |-> Num(-400) ] }

RECURSIVE SeqsUpTo(_, _)
SeqsUpTo(S, n) ==
    IF n = 0 THEN {<<>>}
    ELSE LET shorter == SeqsUpTo(S, n - 1)
         IN  shorter \cup {Append(q, x) : q \in {r \in shorter : Len(r) = n - 1}, x \in S}

\* A response with a table of at least one row.
SheetTables == {q \in SeqsUpTo(SheetRows, MaxRows) : Len(q) > 0}

\* ------------------------------------------------ ingestion: fallback data
FallbackPoints == 20

\* The random draws of one row, lines 1633-1640: temperature, humidity,
\* voltage and angle are toFixed(1) strings, energy is a toFixed(3) string,
\* current and power are Math.floor numbers.
FallbackDraws ==
    { [ temperature |-> Str(2530), humidity |-> Str(6120), voltage |-> Str(940),
        current |-> Num(12000), power |-> Num(150000), energy |-> Str(1),
        angle |-> Str(210) ],
      [ temperature |-> Str(2710), humidity |-> Str(6880), voltage |-> Str(990),
        current |-> Num(25000), power |-> Num(80000), energy |-> Str(5),
        angle |-> Str(1250) ] }

\* The draws the rows before the last one are taken to have: the two draws
\* in turn.
EarlierDraws ==
    { [i \in 1..FallbackPoints |->
         CHOOSE draw \in FallbackDraws : (draw.angle = Str(210)) <=> (i % 2 = 0)] }

\* generateFallbackData: the loop runs i = 20 down to 0; row k of the result
\* is i = FallbackPoints + 1 - k.  latest is the random draw of the last
\* row, earlier[i] the draw of the row of i.
generateFallbackData(latest, earlier) ==
    [k \in 1..(FallbackPoints + 1) |->
        LET i == FallbackPoints + 1 - k
            draw == IF i = 0 THEN latest ELSE earlier[i]
        IN  Row(draw.temperature, draw.humidity, draw.voltage, draw.current,
                IF i % 5 = 0 THEN Num(10000) ELSE Num(0),
                draw.power, draw.energy, draw.angle)]
\* ------------------------------------------------------------ analyzeTrend
\* The metrics of a sample, in the order of line 1577.
Metrics ==
    << "temperature", "humidity", "voltage", "current",
       "oilLevel", "power", "energy", "angle" >>

WindowSize == 5

\* The whole series taken as the window.
recentValuesAll(values) == values

\* values.slice(-5), line 1294
recentValues(values) ==
    IF Len(values) <= WindowSize THEN values
    ELSE SubSeq(values, Len(values) - WindowSize + 1, Len(values))

\* Deviation multipliers in tenths, lines 1303-1312.
thresholds ==
    [ temperature |-> 20, humidity |-> 20, voltage |-> 15, current |-> 20,
      oilLevel |-> 15, power |-> 25, energy |-> 20, angle |-> 12 ]

DefaultThreshold == 20

\* thresholds[metric] || 2.0, line 1316
thresholdOf(metric) ==
    IF metric \in DOMAIN thresholds THEN thresholds[metric] ELSE DefaultThreshold

RECURSIVE GCD(_, _)
GCD(a, b) == IF b = 0 THEN a ELSE GCD(b, a % b)

RECURSIVE SumSeq(_)
SumSeq(q) == IF q = <<>> THEN 0 ELSE q[1] + SumSeq(Tail(q))

RECURSIVE GCDSeq(_)
GCDSeq(q) == IF q = <<>> THEN 0 ELSE GCD(Abs(q[1]), GCDSeq(Tail(q)))

HasNaN(values) == \E i \in 1..Len(values) : values[i].nan

\* The n deviations x - avgValue of a window, each multiplied by n and
\* divided by their greatest common divisor (both sides of the test below
\* scale with the square of the unit).
deviations(recent) ==
    LET n == Len(recent)
        sum == SumSeq([i \in 1..n |-> recent[i].v])
        d == [i \in 1..n |-> n * recent[i].v - sum]
        g == GCDSeq(d)
    IN  IF g = 0 THEN d ELSE [i \in 1..n |-> d[i] \div g]

\* isAbnormal with a deviation of exactly k * stdDev counted as abnormal.
isAbnormalInclusive(recent, metric) ==
    LET n == Len(recent)
        d == deviations(recent)
        k == thresholdOf(metric)
    IN  /\ ~HasNaN(recent)
        /\ 100 * n * d[n] * d[n] >= k * k * SumSeq([i \in 1..n |-> d[i] * d[i]])

\* isAbnormal testing the trend, last - first, in place of last - avgValue.
isAbnormalOfTrend(recent, metric) ==
    LET n == Len(recent)
        d == deviations(recent)
        k == thresholdOf(metric)
    IN  /\ ~HasNaN(recent)
        /\ 100 * n * (d[n] - d[1]) * (d[n] - d[1])
              > k * k * SumSeq([i \in 1..n |-> d[i] * d[i]])

\* The numbers of a window as the doubles parseFloat gives.
DValues(recent) == [i \in 1..Len(recent) |-> DOfHundredths(recent[i].v)]

\* values.reduce((a, b) => a + b, 0), lines 1297 and 2373, over the first i
\* values
RECURSIVE DSumTo(_, _)
DSumTo(ds, i) == IF i = 0 THEN DZero ELSE DAdd(DSumTo(ds, i - 1), ds[i])

\* reduce((sq, n) => sq + Math.pow(n - avgValue, 2), 0), line 1299, over the
\* first i values; Math.pow(x, 2) is x * x.
RECURSIVE DSquaresTo(_, _, _)
DSquaresTo(ds, avgValue, i) ==
    IF i = 0 THEN DZero
    ELSE LET d == DSub(ds[i], avgValue)
         IN  DAdd(DSquaresTo(ds, avgValue, i - 1), DMul(d, d))

\* Lines 1298-1316 on the n doubles ds of a window without NaN and their
\* avgValue, k in tenths: stdDev and the comparison.
isAbnormalAround(ds, avgValue, n, k) ==
    DGreater(DAbs(DSub(ds[n], avgValue)),
             DMul(DDiv(DOfInt(k), DOfInt(10)),
                  DSqrt(DDiv(DSquaresTo(ds, avgValue, n), DOfInt(n)))))

\* Lines 1297-1316 on the n doubles ds of a window without NaN.
isAbnormalOfDoubles(ds, n, k) ==
    isAbnormalAround(ds, DDiv(DSumTo(ds, n), DOfInt(n)), n, k)

\* Math.abs(last - avgValue) > (thresholds[metric] || 2.0) * stdDev, lines
\* 1297-1316.  On exact numbers, with d the deviations times n and k in
\* tenths, |d[n]| / n > (k / 10) * sqrt(Sum d[i]^2 / n^3) is
\* 100 * n * d[n]^2 > k^2 * Sum d[i]^2; the two sides are integers, so
\* unless they are equal they differ by more in proportion than the
\* rounding of the doubles can bridge, and the doubles decide as the exact
\* numbers do.  When they are equal (four equal samples and a fifth one, for
\* k = 2.0) the rounding of the doubles decides: [50, 50, 50, 50, 52] is
\* abnormal for current, [1, 1, 1, 1, 2] is not.  When both are 0 the
\* samples are all equal: the mean of their doubles may differ from them,
\* by one deviation d for every sample, so that stdDev is |d| within
\* rounding and k, no less than 1.2, times it is no less than |d|: not
\* abnormal.  A NaN among the values makes avgValue and stdDev NaN and the
\* comparison false.
isAbnormal(recent, metric) ==
    LET n == Len(recent)
        d == deviations(recent)
        k == thresholdOf(metric)
        deviation == 100 * n * d[n] * d[n]
        allowed == k * k * SumSeq([i \in 1..n |-> d[i] * d[i]])
    IN  /\ ~HasNaN(recent)
        /\ IF deviation = allowed
           THEN deviation # 0 /\ isAbnormalOfDoubles(DValues(recent), n, k)
           ELSE deviation > allowed

\* recentValues[last] - recentValues[0], line 1295
trend(recent) ==
    LET first == recent[1]
        last == recent[Len(recent)]
    IN  IF first.nan \/ last.nan THEN NaN ELSE [nan |-> FALSE, v |-> last.v - first.v]

\* A JavaScript number that need not be finite: Infinity, -Infinity, NaN,
\* or the double an expression gave.  The double is held as the exact value
\* num / den of the expression (lowest terms, den > 0), the quantity q the
\* expression computes ("rate" or "hours") and the first and last values of
\* the window it computes it from.
Finite(num, den, q, first, last) ==
    LET g == GCD(Abs(num), den)
    IN  [k |-> "finite", num |-> num \div g, den |-> den \div g,
         q |-> q, first |-> first, last |-> last]
NotFinite(kind) ==
    [k |-> kind, num |-> 0, den |-> 1, q |-> "rate", first |-> 0, last |-> 0]

\* ((last - first) / first) * 100, line 1319: a division by 0 gives
\* Infinity or -Infinity by the sign of the numerator, and 0 / 0 gives NaN.
rateOfChange(recent) ==
    LET first == recent[1]
        last == recent[Len(recent)]
    IN  IF first.nan \/ last.nan THEN NotFinite("NaN")
        ELSE IF first.v = 0
             THEN IF last.v > 0 THEN NotFinite("Infinity")
                  ELSE IF last.v < 0 THEN NotFinite("-Infinity")
                  ELSE NotFinite("NaN")
        ELSE IF first.v < 0
             THEN Finite(-100 * (last.v - first.v), -first.v, "rate", first.v, last.v)
        ELSE Finite(100 * (last.v - first.v), first.v, "rate", first.v, last.v)

\* ((last - first) / first) * 100, line 1319, on the doubles first and
\* last, first other than 0.
rateOfDoubles(first, last) == DMul(DDiv(DSub(last, first), first), DOfInt(100))

\* Math.abs((100 / rateOfChange) * 24), line 1496, on the double of a rate
\* other than 0.
hoursOfDoubles(rate) == DAbs(DMul(DDiv(DOfInt(100), rate), DOfInt(24)))

\* The double of a finite number.
quantityOfDoubles(q, rate) == IF q = "rate" THEN rate ELSE hoursOfDoubles(rate)
DoubleOf(x) ==
    IF x.q = "hours" /\ x.first = 0 THEN DZero
    ELSE quantityOfDoubles(x.q, rateOfDoubles(DOfHundredths(x.first),
                                              DOfHundredths(x.last)))

\* x.toFixed(1) of a number that need not be finite, in tenths: toFixed
\* gives "Infinity", "-Infinity" and "NaN" for the values that are not.
toFixed1Of(x) ==
    IF x.k = "finite"
    THEN [k |-> "finite", tenths |-> toFixedOf(10 * x.num, x.den, DoubleOf(x), 1)]
    ELSE [k |-> x.k, tenths |-> 0]

\* Math.abs(rateOfChange) > 10, line 1495: false for NaN.  A rate of
\* exactly 10 or -10 percent is decided by its double: 1 to 1.1 gives
\* 10.000000000000009, 10 to 11 gives 10.
isSignificant(rate) ==
    CASE rate.k = "finite" ->
            IF Abs(rate.num) = 10 * rate.den
            THEN DGreater(DAbs(DoubleOf(rate)), DOfInt(10))
            ELSE Abs(rate.num) > 10 * rate.den
      [] rate.k = "NaN" -> FALSE
      [] OTHER -> TRUE

\* Math.abs((100 / rateOfChange) * 24), line 1496, of a rate that is not
\* NaN and not 0: 100 / Infinity is 0.
timeToThreshold(rate) ==
    IF rate.k = "finite"
    THEN Finite(2400 * rate.den, Abs(rate.num), "hours", rate.first, rate.last)
    ELSE Finite(0, 1, "hours", 0, 0)

\* The catalog, lines 1322-1483: every metric has a high and a low list of
\* four lines, a stable list of three lines and a prediction phrase.  A line
\* of text is the record of whose list it is and its place in the list.
Catalog ==
    { "current", "voltage", "temperature", "humidity",
      "oilLevel", "power", "energy", "angle" }

ListLength(list) == IF list = "stable" THEN 3 ELSE 4

Line(metric, list, n) == [of |-> metric, list |-> list, n |-> n, hours |-> Null]

\* The sentences the catalog of the call holds at the end of a list.
extraLines(metric, list) ==
    LET held == SelectSeq(catalog, LAMBDA e : e.of = metric /\ e.list = list)
    IN  [i \in 1..Len(held) |-> held[i].line]

\* insights[metric]?.high || [`... Abnormal increase in ${metric} detected.`],
\* and the same for low and stable, lines 1489-1500: the array of the
\* catalog itself, or a new array of one generic line.
catalogList(metric, list) ==
    IF metric \in Catalog
    THEN [n \in 1..ListLength(list) |-> Line(metric, list, n)] \o extraLines(metric, list)
    ELSE << Line(metric,
                 CASE list = "high" -> "Abnormal increase detected"
                   [] list = "low" -> "Abnormal decrease detected"
                   [] OTHER -> "levels are stable",
                 1) >>

\* `${insights[metric]?.prediction || "May require attention in"}
\* ${timeToThreshold.toFixed(1)} hours.`, line 1497
predictionLine(metric, rate) ==
    [ of |-> IF metric \in Catalog THEN metric ELSE "May require attention in",
      list |-> "prediction", n |-> 1,
      hours |-> << toFixed1Of(timeToThreshold(rate)).tenths >> ]

\* The selection with the lists of a rise and of a fall exchanged.
suggestionSwapped(metric, abnormal, tr, rate) ==
    IF abnormal
    THEN LET chosen == IF ~tr.nan /\ tr.v > 0 THEN catalogList(metric, "low")
                       ELSE catalogList(metric, "high")
         IN  IF isSignificant(rate) THEN Append(chosen, predictionLine(metric, rate))
             ELSE chosen
    ELSE catalogList(metric, "stable")

\* The selection with a trend of 0 counted as a rise.
suggestionZeroIsHigh(metric, abnormal, tr, rate) ==
    IF abnormal
    THEN LET chosen == IF ~tr.nan /\ tr.v >= 0 THEN catalogList(metric, "high")
                       ELSE catalogList(metric, "low")
         IN  IF isSignificant(rate) THEN Append(chosen, predictionLine(metric, rate))
             ELSE chosen
    ELSE catalogList(metric, "stable")

\* Lines 1486-1501.
suggestion(metric, abnormal, tr, rate) ==
    IF abnormal
    THEN LET chosen == IF ~tr.nan /\ tr.v > 0 THEN catalogList(metric, "high")
                       ELSE catalogList(metric, "low")
         IN  IF isSignificant(rate) THEN Append(chosen, predictionLine(metric, rate))
             ELSE chosen
    ELSE catalogList(metric, "stable")

\* item[metric] of a row: undefined for a key the row does not have.
Cell(item, metric) == IF metric \in DOMAIN item THEN item[metric] ELSE Undefined

\* analyzeTrend that also answers for a series of one sample.
analyzeTrendFromOne(series, metric) ==
    IF Len(series) < 1 THEN Null
    ELSE LET values == [i \in 1..Len(series) |-> parseFloat(Cell(series[i], metric))]
             recent == recentValues(values)
             abnormal == isAbnormal(recent, metric)
             rate == rateOfChange(recent)
         IN  << [ trend |-> trend(recent),
                  isAbnormal |-> abnormal,
                  suggestion |-> suggestion(metric, abnormal, trend(recent), rate),
                  rateOfChange |-> toFixed1Of(rate) ] >>

\* analyzeTrend(data, metric), lines 1289-1509: null, or a TrendInsight s as
\* <<s>>.  A missing series (null, undefined) is Null.
analyzeTrend(series, metric) ==
    IF series = Null \/ Len(series) < 2 THEN Null
    ELSE LET values == [i \in 1..Len(series) |-> parseFloat(Cell(series[i], metric))]
             recent == recentValues(values)
             abnormal == isAbnormal(recent, metric)
             rate == rateOfChange(recent)
         IN  << [ trend |-> trend(recent),
                  isAbnormal |-> abnormal,
                  suggestion |-> suggestion(metric, abnormal, trend(recent), rate),
                  rateOfChange |-> toFixed1Of(rate) ] >>

\* suggestion.push(...), line 1497: suggestion is the array of the catalog,
\* so the sentence a call returns last is also the last line of that list of
\* the catalog the call used.
pushedBy(metric, result) ==
    IF metric \notin Catalog \/ result = Null THEN <<>>
    ELSE LET returned == result[1].suggestion
             last == returned[Len(returned)]
         IN  IF last.list = "prediction"
             THEN << [of |-> metric, list |-> returned[1].list, line |-> last] >>
             ELSE <<>>

RECURSIVE pushedByAll(_, _)
pushedByAll(metrics, results) ==
    IF metrics = <<>> THEN <<>>
    ELSE pushedBy(Head(metrics), results[Head(metrics)])
            \o pushedByAll(Tail(metrics), results)

\* The metrics the calls that gave these results appended a sentence for.
pushedIn(results) ==
    {metric \in DOMAIN results : pushedBy(metric, results[metric]) # <<>>}

\* One catalog object, built once, serving every call.
catalogKept(used) == used

\* const insights = { ... }, line 1322, inside analyzeTrend: every call
\* evaluates the literal anew, so the next call finds none of the sentences
\* pushed onto the lists of the catalog this call used.
catalogOfNextCall(used) == <<>>

\* ------------------------------------------------------ calculateStatistics
\* The em dash formatValue shows for a missing value.
Dash == [t |-> "dash", v |-> 0]

\* formatValue(value, precision = 1), lines 1687-1690: a number is rendered
\* by toFixed(precision) (NaN as the text "NaN"), a string is returned as it
\* is.  The string is held by its number in hundredths: 123.45 gives "123"
\* with precision 0, 2.5 gives "3", and with a precision of 2 or more the
\* digits are those of the value, followed by zeros.
formatValue(value, precision) ==
    IF value.t \in {"undefined", "null"} THEN Dash
    ELSE IF value.t = "number"
         THEN Str(CASE precision = 0 ->
                          100 * toFixedOf(value.v, 100, DOfHundredths(value.v), 0)
                    [] precision = 1 -> 10 * toFixed1(value.v)
                    [] OTHER -> toFixed2(value.v))
    ELSE IF value.t = "nan" THEN Text
    ELSE value

\* The metrics of the report, line 2365.
StatMetrics ==
    << "temperature", "humidity", "oilLevel", "voltage",
       "current", "power", "energy", "angle" >>

\* metric.charAt(0).toUpperCase() + metric.slice(1), line 2370
Capitalized(metric) ==
    CASE metric = "temperature" -> "Temperature"
      [] metric = "humidity" -> "Humidity"
      [] metric = "oilLevel" -> "OilLevel"
      [] metric = "voltage" -> "Voltage"
      [] metric = "current" -> "Current"
      [] metric = "power" -> "Power"
      [] metric = "energy" -> "Energy"
      [] metric = "angle" -> "Angle"

\* The values of a metric with a value that does not parse counted as 0.
numericValuesNaNAsZero(series, metric) ==
    [i \in 1..Len(series) |-> parseFloat(Cell(series[i], metric)).v]

\* data.map(d => parseFloat(d[metric])).filter(v => !isNaN(v)), line 2368
numericValues(series, metric) ==
    LET parsed == [i \in 1..Len(series) |-> parseFloat(Cell(series[i], metric))]
        kept == SelectSeq(parsed, LAMBDA v : ~v.nan)
    IN  [i \in 1..Len(kept) |-> kept[i].v]

\* values.reduce((a, b) => a + b, 0) / values.length, line 2373, on the
\* doubles of the values.
meanOfDoubles(values) ==
    DDiv(DSumTo([i \in 1..Len(values) |-> DOfHundredths(values[i])], Len(values)),
         DOfInt(Len(values)))

RECURSIVE MinSeq(_)
MinSeq(q) ==
    IF Len(q) = 1 THEN q[1]
    ELSE LET rest == MinSeq(Tail(q)) IN IF q[1] < rest THEN q[1] ELSE rest

RECURSIVE MaxSeq(_)
MaxSeq(q) ==
    IF Len(q) = 1 THEN q[1]
    ELSE LET rest == MaxSeq(Tail(q)) IN IF q[1] > rest THEN q[1] ELSE rest

\* What a call gives that ends by throwing a TypeError.
TypeError == [thrown |-> "TypeError"]

\* calculateStatistics(), lines 2361-2380, reading data and latestValues:
\* the result maps the capitalized name of every metric that has a numeric
\* value to its min, max, avg (each toFixed(2), in hundredths) and current
\* (formatValue with its default precision, 1).  An average that lies
\* exactly between two hundredths is rounded as its double lies: the mean of
\* 10 and 10.01 is "10.00".  latestValues[metric], line 2374, has no
\* optional chaining: with latestValues null the first metric that has a
\* numeric value throws.
calculateStatistics(series, lv) ==
    IF Len(series) = 0 THEN [key \in {} |-> Null]
    ELSE LET present == {i \in 1..Len(StatMetrics) :
                            Len(numericValues(series, StatMetrics[i])) > 0}
             metricOf(key) ==
                 StatMetrics[CHOOSE i \in present : Capitalized(StatMetrics[i]) = key]
         IN  IF present # {} /\ lv = Null THEN TypeError
             ELSE
             [key \in {Capitalized(StatMetrics[i]) : i \in present} |->
                LET values == numericValues(series, metricOf(key))
                IN  [ min |-> toFixed2(MinSeq(values)),
                      max |-> toFixed2(MaxSeq(values)),
                      avg |-> toFixedOf(SumSeq(values), Len(values),
                                        meanOfDoubles(values), 2),
                      current |-> formatValue(Field(lv, metricOf(key)), 1) ]]

\* useState({}), line 1283
NoInsights == [metric \in {} |-> Null]

\* The metrics the fallback branch analyzes, line 1609.
FallbackMetrics == << "temperature", "humidity", "voltage", "current", "oilLevel" >>

\* metrics.forEach(metric => { newInsights[metric] = analyzeTrend(...) }),
\* lines 1577-1581 and 1609-1613.
newInsights(series, metrics) ==
    [metric \in {metrics[i] : i \in 1..Len(metrics)} |-> analyzeTrend(series, metric)]

\* --------------------------------------------------- checkForCriticalAlerts
\* A pass that adds its alerts to the list instead of replacing the list.
alertsAfterPassAccumulating(cur, prev) == prev \o cur

\* setAlerts(currentAlerts) / setAlerts([]), lines 2521-2526
alertsAfterPass(cur, prev) == cur

\* A pass that also hides the modal when its list is empty.
modalAfterPassHides(cur, modal) == Len(cur) > 0

\* A pass that never touches the modal.
modalAfterPassKeeps(cur, modal) == modal

\* setShowAlertModal(true) only when the list is non-empty, lines 2521-2526
modalAfterPass(cur, modal) == IF Len(cur) > 0 THEN TRUE ELSE modal

\* checkForCriticalAlerts() run by a function that closes over lv.
checkForCriticalAlerts(lv) ==
    LET cur == currentAlerts(lv, clock)
    IN  /\ alerts' = alertsAfterPass(cur, alerts)
        /\ showAlertModal' = modalAfterPass(cur, showAlertModal)
        /\ clock' = clock + 1

\* The history variables describe the operation that ran last: started is
\* the caller of the fetchGoogleSheetData call it started, passInput the
\* latestValues its evaluation pass read, target the alert whose dismiss
\* button it handled.
History(op, src, lv, tgt) ==
    /\ lastOp' = op
    /\ started' = src
    /\ passInput' = lv
    /\ target' = tgt

Idle == ~alertEffectPending /\ ~pollEffectPending

\* A call of fetchGoogleSheetData up to its first await: setLoading(true).
\* cl is the latestValues its checkForCriticalAlerts closes over.
StartFetch(cl) ==
    /\ Len(inflight) < MaxInflight
    /\ inflight' = Append(inflight, cl)
    /\ overtaken' = IF observing THEN Append(overtaken, FALSE) ELSE overtaken
    /\ loading' = TRUE
    /\ connectionStatus' = "Connecting to Google Sheet..."

\* The bound on the calls in flight leaves room for the call each running
\* export starts when it ends (the polling effect re-run by its finally
\* block), so that the bound never holds up an export.
MayStart(owed) == Len(inflight) + exporting + owed < MaxInflight

RemoveAt(q, i) == [k \in 1..(Len(q) - 1) |-> IF k < i THEN q[k] ELSE q[k + 1]]

\* The completion of the i-th call in flight overtakes the calls started
\* before it that are still in flight.
overtakenBy(flags, i) == [k \in 1..Len(flags) |-> flags[k] \/ k < i]

\* The i-th call in flight completes and publishes.
Completed(i) ==
    /\ overtaken' = IF observing THEN RemoveAt(overtakenBy(overtaken, i), i) ELSE overtaken
    /\ publisher' = IF ~observing THEN publisher
                     ELSE IF overtaken[i] THEN "overtaken" ELSE "latest"
    /\ UNCHANGED observing

\* No effect on latestValues: the pass of the fetch is the only one.
alertEffectNeverDue(published) == FALSE

\* The effect with dependencies [latestValues, hasFetchedValues] is due
\* after a commit that changed one of them; every published sample is a new
\* object.
alertEffectDue(published) == published

\* ----------------------------------------------------------------- actions
\* fetchGoogleSheetData, lines 1537-1596: the response holds rows.
FetchSuccess(i, rows) ==
    /\ Idle
    /\ i \in 1..Len(inflight)
    /\ clock < 2 * MaxCycles
    /\ LET pd == processedData(rows)
       IN  /\ data' = pd
           /\ latestValues' = << pd[Len(pd)] >>
           /\ insights' = newInsights(pd, Metrics)
           /\ catalog' = catalogOfNextCall(catalog \o pushedByAll(Metrics, insights'))
           /\ priorPush' = (pushedIn(insights) \cap DOMAIN insights' # {})
    /\ hasFetchedValues' = TRUE
    /\ loading' = FALSE
    /\ connectionStatus' = "Connected to Google Sheet"
    /\ dataSource' = "Google Sheet (Live Data)"
    /\ checkForCriticalAlerts(inflight[i])
    /\ inflight' = RemoveAt(inflight, i)
    /\ Completed(i)
    /\ alertEffectPending' = alertEffectDue(TRUE)
    /\ dismissedSince' = FALSE
    /\ dismissed' = IF dismissedSince THEN dismissed ELSE {}
    /\ History("fetchSuccess", "none", inflight[i], <<>>)
    /\ UNCHANGED << error, isExportingPDF, interval, pollEffectPending, exporting, probe >>

\* fetchGoogleSheetData, lines 1600-1620: the request failed, the response
\* was not ok or held no rows; generateFallbackData publishes its last row.
FetchFailure(i, latest, earlier) ==
    /\ Idle
    /\ i \in 1..Len(inflight)
    /\ clock < 2 * MaxCycles
    /\ LET fallbackData == generateFallbackData(latest, earlier)
       IN  /\ data' = fallbackData
           /\ latestValues' = << fallbackData[Len(fallbackData)] >>
           /\ insights' = newInsights(fallbackData, FallbackMetrics)
           /\ catalog' = catalogOfNextCall(catalog \o pushedByAll(FallbackMetrics, insights'))
           /\ priorPush' = (pushedIn(insights) \cap DOMAIN insights' # {})
    /\ hasFetchedValues' = TRUE
    /\ loading' = FALSE
    /\ connectionStatus' = "Using Fallback Data - Check Sheet Permissions"
    /\ dataSource' = "Fallback Data (Not from Sheet)"
    /\ error' = TRUE
    /\ checkForCriticalAlerts(inflight[i])
    /\ inflight' = RemoveAt(inflight, i)
    /\ Completed(i)
    /\ alertEffectPending' = alertEffectDue(TRUE)
    /\ dismissedSince' = FALSE
    /\ dismissed' = IF dismissedSince THEN dismissed ELSE {}
    /\ History("fetchFailure", "none", inflight[i], <<>>)
    /\ UNCHANGED << isExportingPDF, interval, pollEffectPending, exporting, probe >>

\* useEffect(..., [latestValues, hasFetchedValues]), lines 1680-1684.
AlertEffect ==
    /\ alertEffectPending
    /\ alertEffectPending' = FALSE
    /\ IF hasFetchedValues /\ latestValues # Null
       THEN checkForCriticalAlerts(latestValues)
       ELSE UNCHANGED << alerts, showAlertModal, clock >>
    /\ History("alertEffect", "none", latestValues, <<>>)
    /\ UNCHANGED << insights, catalog, priorPush, dismissed, observing, overtaken, publisher, error, connectionStatus, dataSource,
                    data, loading, isExportingPDF, latestValues,
                    hasFetchedValues, inflight, interval, pollEffectPending,
                    exporting, dismissedSince, probe >>

\* useEffect(..., [isExportingPDF]), lines 1656-1676, re-run after
\* isExportingPDF changed: the old interval is cleared, fetchData() is
\* called and a new interval is set.
PollingEffect ==
    /\ pollEffectPending
    /\ ~alertEffectPending
    /\ pollEffectPending' = FALSE
    /\ StartFetch(latestValues)
    /\ interval' = [cl |-> latestValues, isExportingPDF |-> isExportingPDF]
    /\ History("pollingEffect", "effect", Null, <<>>)
    /\ UNCHANGED << insights, catalog, priorPush, dismissed, observing, publisher, error, dataSource,
                    data, isExportingPDF, latestValues, hasFetchedValues,
                    alerts, showAlertModal, alertEffectPending, clock,
                    exporting, dismissedSince, probe >>

\* if (!isExportingPDF), line 1666, in the setInterval callback.
intervalFires(closure) == ~closure.isExportingPDF

\* The setInterval callback, lines 1664-1672.
IntervalTick ==
    /\ Idle
    /\ intervalFires(interval)
    /\ MayStart(0)
    /\ StartFetch(interval.cl)
    /\ History("intervalTick", "interval", Null, <<>>)
    /\ UNCHANGED << insights, catalog, priorPush, dismissed, observing, publisher, error, dataSource,
                    data, isExportingPDF, latestValues, hasFetchedValues,
                    alerts, showAlertModal, interval, alertEffectPending,
                    pollEffectPending, clock, exporting, dismissedSince, probe >>

\* The Refresh Now button, lines 2788-2793, rendered when not loading.
RefreshNow ==
    /\ Idle
    /\ ~loading
    /\ MayStart(0)
    /\ StartFetch(latestValues)
    /\ History("refreshNow", "button", Null, <<>>)
    /\ UNCHANGED << insights, catalog, priorPush, dismissed, observing, publisher, error, dataSource,
                    data, isExportingPDF, latestValues, hasFetchedValues,
                    alerts, showAlertModal, interval, alertEffectPending,
                    pollEffectPending, clock, exporting, dismissedSince, probe >>

\* dismissAlert(alertId), line 2531: the updater of setAlerts.
dismissFilter(prev, alertId) == SelectSeq(prev, LAMBDA alert : alert.id # alertId)

\* dismissAlert(alertId), lines 2532-2534: alerts.length of the render that
\* shows the button.
modalAfterDismiss(shown, modal) == IF Len(shown) <= 1 THEN FALSE ELSE modal

\* dismissAlert(alertId), lines 2530-2535.
dismissAlert(alertId) ==
    /\ alerts' = dismissFilter(alerts, alertId)
    /\ showAlertModal' = modalAfterDismiss(alerts, showAlertModal)

\* onClick={() => dismissAlert(index)}, line 2746: the argument is the
\* position of the alert in alerts.map, a number counted from 0, where an
\* alert's id is the string [kind, n].
dismissArgument(shown, index) == [kind |-> "number", n |-> index - 1]

\* The dismiss button of the index-th alert shown in the modal.
DismissButton(index) ==
    /\ Idle
    /\ showAlertModal
    /\ index \in 1..Len(alerts)
    /\ dismissAlert(dismissArgument(alerts, index))
    /\ dismissedSince' = TRUE
    /\ dismissed' = (IF dismissedSince THEN dismissed ELSE {}) \cup {alerts[index].id.n}
    /\ History("dismissAlert", "none", Null, << alerts[index] >>)
    /\ UNCHANGED << insights, catalog, priorPush, observing, overtaken, publisher, error, connectionStatus, dataSource,
                    data, loading, isExportingPDF, latestValues,
                    hasFetchedValues, inflight, interval, alertEffectPending,
                    pollEffectPending, clock, exporting, probe >>

dismissAllAlertsKeepsModal ==
    /\ alerts' = <<>>
    /\ UNCHANGED showAlertModal

\* dismissAllAlerts, lines 2538-2541.
dismissAllAlerts ==
    /\ alerts' = <<>>
    /\ showAlertModal' = FALSE

\* The Dismiss All Alerts button, lines 2755-2763.
DismissAllButton ==
    /\ Idle
    /\ showAlertModal
    /\ Len(alerts) > 0
    /\ dismissAllAlerts
    /\ dismissedSince' = TRUE
    /\ dismissed' = (IF dismissedSince THEN dismissed ELSE {}) \cup {alerts[i].id.n : i \in 1..Len(alerts)}
    /\ History("dismissAllAlerts", "none", Null, <<>>)
    /\ UNCHANGED << insights, catalog, priorPush, observing, overtaken, publisher, error, connectionStatus, dataSource,
                    data, loading, isExportingPDF, latestValues,
                    hasFetchedValues, inflight, interval, alertEffectPending,
                    pollEffectPending, clock, exporting, probe >>

\* The modal overlay and its close button, lines 2711 and 2717.
CloseModal ==
    /\ Idle
    /\ showAlertModal
    /\ showAlertModal' = FALSE
    /\ History("closeModal", "none", Null, <<>>)
    /\ UNCHANGED << insights, catalog, priorPush, dismissed, observing, overtaken, publisher, error, connectionStatus, dataSource,
                    data, loading, isExportingPDF, latestValues,
                    hasFetchedValues, alerts, inflight, interval,
                    alertEffectPending, pollEffectPending, clock, exporting,
                    dismissedSince, probe >>

\* The Alerts button, lines 2794-2800, rendered when not loading.
OpenModal ==
    /\ Idle
    /\ ~loading
    /\ showAlertModal' = TRUE
    /\ History("openModal", "none", Null, <<>>)
    /\ UNCHANGED << insights, catalog, priorPush, dismissed, observing, overtaken, publisher, error, connectionStatus, dataSource,
                    data, loading, isExportingPDF, latestValues,
                    hasFetchedValues, alerts, inflight, interval,
                    alertEffectPending, pollEffectPending, clock, exporting,
                    dismissedSince, probe >>

\* exportToPDF, line 1695: setIsExportingPDF(true).  The Export PDF button
\* is rendered when not loading; the button this call disables is unmounted
\* by the fetch the polling effect then starts, and the button rendered
\* after that fetch is a new, enabled element.
ExportStart ==
    /\ Idle
    /\ ~loading
    /\ exporting < MaxExports
    /\ MayStart(1)
    /\ isExportingPDF' = TRUE
    /\ pollEffectPending' = (isExportingPDF # TRUE)
    /\ exporting' = exporting + 1
    /\ History("exportStart", "none", Null, <<>>)
    /\ UNCHANGED << insights, catalog, priorPush, dismissed, observing, overtaken, publisher, error, connectionStatus, dataSource,
                    data, loading, latestValues, hasFetchedValues, alerts,
                    showAlertModal, inflight, interval, alertEffectPending,
                    clock, dismissedSince, probe >>

\* An export whose finally block resets the flag only when nothing threw.
exportEndsResetOnSuccess(threw) == IF threw THEN isExportingPDF ELSE FALSE

\* finally { setIsExportingPDF(false) }, lines 2352-2354.
exportEnds(threw) == FALSE

\* exportToPDF, lines 2349-2357: the report was saved, or a step threw and
\* the catch block ran; the finally block runs setIsExportingPDF(false).
\* The awaits of an export settle whether or not an effect is due: when the
\* flag is false already (another export ended first) nothing is rendered
\* and an effect that is due stays due.  Only the polling effect the click
\* of the export button made due has run before, since React runs the
\* effects of a click before it returns to the event loop.
ExportFinish(threw) ==
    /\ exporting > 0
    /\ ~(pollEffectPending /\ isExportingPDF)
    /\ isExportingPDF' = exportEnds(threw)
    /\ pollEffectPending' = (pollEffectPending \/ isExportingPDF # isExportingPDF')
    /\ exporting' = exporting - 1
    /\ History(IF threw THEN "exportThrew" ELSE "exportSaved", "none", Null, <<>>)
    /\ UNCHANGED << insights, catalog, priorPush, dismissed, observing, overtaken, publisher, error, connectionStatus, dataSource,
                    data, loading, latestValues, hasFetchedValues, alerts,
                    showAlertModal, inflight, interval, alertEffectPending,
                    clock, dismissedSince, probe >>

\* ------------------------------------------------------- the specification
\* The state after the component mounted: the polling effect has run once,
\* called fetchData() and set the interval; the alert effect found
\* hasFetchedValues false.
Mounted ==
    /\ data = <<>>
    /\ loading = TRUE
    /\ isExportingPDF = FALSE
    /\ latestValues = Null
    /\ hasFetchedValues = FALSE
    /\ alerts = <<>>
    /\ showAlertModal = FALSE
    /\ inflight = << Null >>
    /\ interval = [cl |-> Null, isExportingPDF |-> FALSE]
    /\ alertEffectPending = FALSE
    /\ pollEffectPending = FALSE
    /\ clock = 0
    /\ lastOp = "mount"
    /\ started = "effect"
    /\ passInput = Null
    /\ exporting = 0
    /\ dismissedSince = FALSE
    /\ target = <<>>
    /\ error = FALSE
    /\ dataSource = "Unknown"
    /\ connectionStatus = "Connecting to Google Sheet..."
    /\ probe = NoProbe
    /\ insights = NoInsights
    /\ catalog = <<>>
    /\ priorPush = FALSE
    /\ dismissed = {}

\* The start order of the calls in flight is not recorded.
Init ==
    /\ Mounted
    /\ observing = FALSE
    /\ overtaken = <<>>
    /\ publisher = "none"

\* The start order of the calls in flight is recorded.
InitOverlap ==
    /\ Mounted
    /\ observing = TRUE
    /\ overtaken = << FALSE >>
    /\ publisher = "none"

Next ==
    \/ \E i \in 1..MaxInflight, rows \in SheetTables : FetchSuccess(i, rows)
    \/ \E i \in 1..MaxInflight, latest \in FallbackDraws, earlier \in EarlierDraws :
            FetchFailure(i, latest, earlier)
    \/ AlertEffect
    \/ PollingEffect
    \/ IntervalTick
    \/ RefreshNow
    \/ \E index \in 1..2 : DismissButton(index)
    \/ DismissAllButton
    \/ CloseModal
    \/ OpenModal
    \/ ExportStart
    \/ \E threw \in BOOLEAN : ExportFinish(threw)

Spec == Init /\ [][Next]_vars

\* The same behaviours, each with the record of the start order.
SpecOverlap == InitOverlap /\ [][Next]_vars


\* ------------------------------------- the alert rules over a wide input
\* SpecRules applies checkForCriticalAlerts and getMetricAlert to one latest
\* sample drawn from EvalInputs: every hundredth around the thresholds, the
\* numbers whose second decimal is 5 among them, which toFixed(1) rounds as
\* their doubles lie (19.95 to "19.9", 20.05 to "20.1").
OilNumbers == (1990..2010) \cup {0, 1500, 10000}
AngleNumbers == (-360..-340) \cup (-2..2) \cup (340..360) \cup {-4000, -400, 500, 4000}

Unparsable == {Undefined, NullValue, Text, NaNValue}

OilInputs == {Num(v) : v \in OilNumbers} \cup {Str(1990), Str(2000), Str(2010)} \cup Unparsable
AngleInputs == {Num(v) : v \in AngleNumbers} \cup {Str(-400), Str(350), Str(360)} \cup Unparsable

EvalInputs == {Null} \cup {<< Sample(o, a) >> : o \in OilInputs, a \in AngleInputs}

CardTitles == {"Temperature", "Humidity", "Oil Level", "Voltage", "Current",
               "Power", "Energy", "Angle"}

InitRules ==
    /\ latestValues \in EvalInputs
    /\ hasFetchedValues = TRUE
    /\ showAlertModal \in BOOLEAN
    /\ data = <<>>
    /\ loading = FALSE
    /\ isExportingPDF = FALSE
    /\ alerts = <<>>
    /\ inflight = <<>>
    /\ observing = FALSE
    /\ overtaken = <<>>
    /\ publisher = "none"
    /\ interval = [cl |-> Null, isExportingPDF |-> FALSE]
    /\ alertEffectPending = FALSE
    /\ pollEffectPending = FALSE
    /\ clock = 0
    /\ lastOp = "mount"
    /\ started = "none"
    /\ passInput = Null
    /\ exporting = 0
    /\ dismissedSince = FALSE
    /\ target = <<>>
    /\ error = FALSE
    /\ dataSource = "Unknown"
    /\ connectionStatus = "Connected to Google Sheet"
    /\ probe = NoProbe
    /\ insights = NoInsights
    /\ catalog = <<>>
    /\ priorPush = FALSE
    /\ dismissed = {}

\* One call of checkForCriticalAlerts by a function of the current render.
RulesPass ==
    /\ clock < MaxPasses
    /\ checkForCriticalAlerts(latestValues)
    /\ lastOp' = "checkForCriticalAlerts"
    /\ passInput' = latestValues
    /\ UNCHANGED << insights, catalog, priorPush, dismissed, observing, overtaken, publisher, error, connectionStatus, dataSource,
                    data, loading, isExportingPDF, latestValues,
                    hasFetchedValues, inflight, interval, alertEffectPending,
                    pollEffectPending, started, exporting, dismissedSince,
                    target, probe >>

\* One call getMetricAlert(title, value) on a field of the latest sample.
CardCall(title, key) ==
    /\ probe' = [metric |-> title, value |-> Field(latestValues, key),
                 result |-> getMetricAlert(title, Field(latestValues, key))]
    /\ lastOp' = "getMetricAlert"
    /\ UNCHANGED << insights, catalog, priorPush, dismissed, observing, overtaken, publisher, error, connectionStatus, dataSource,
                    data, loading, isExportingPDF, latestValues,
                    hasFetchedValues, alerts, showAlertModal, inflight,
                    interval, alertEffectPending, pollEffectPending, clock,
                    started, passInput, exporting, dismissedSince, target >>

\* The eight cards, lines 2847-2925: each passes formatValue of its own
\* field, the Current card and the Power card with precision 0, the others
\* with the default precision, 1.
Cards == { [title |-> "Temperature", key |-> "temperature", precision |-> 1],
           [title |-> "Humidity", key |-> "humidity", precision |-> 1],
           [title |-> "Oil Level", key |-> "oilLevel", precision |-> 1],
           [title |-> "Voltage", key |-> "voltage", precision |-> 1],
           [title |-> "Current", key |-> "current", precision |-> 0],
           [title |-> "Power", key |-> "power", precision |-> 0],
           [title |-> "Energy", key |-> "energy", precision |-> 1],
           [title |-> "Angle", key |-> "angle", precision |-> 1] }

\* MetricCard({ title, value }), lines 2600-2603, rendered with
\* value={formatValue(latestValues?.key, precision)}.
MetricCard(title, key, precision) ==
    /\ probe' = [metric |-> title,
                 value |-> formatValue(Field(latestValues, key), precision),
                 result |-> getMetricAlert(title, formatValue(Field(latestValues, key),
                                                              precision))]
    /\ lastOp' = "MetricCard"
    /\ UNCHANGED << insights, catalog, priorPush, dismissed, observing, overtaken, publisher, error, connectionStatus, dataSource,
                    data, loading, isExportingPDF, latestValues,
                    hasFetchedValues, alerts, showAlertModal, inflight,
                    interval, alertEffectPending, pollEffectPending, clock,
                    started, passInput, exporting, dismissedSince, target >>

NextRules ==
    \/ RulesPass
    \/ \E title \in CardTitles, key \in {"oilLevel", "angle"} : CardCall(title, key)
    \/ \E card \in {c \in Cards : c.key \in {"oilLevel", "angle"}} :
           MetricCard(card.title, card.key, card.precision)

SpecRules == InitRules /\ [][NextRules]_vars


\* ------------------------------------------- analyzeTrend over a wide input
\* SpecTrend applies analyzeTrend to one series and one metric.  A series
\* has up to MaxSeries rows, one more than the window takes; every key of a
\* row holds the same cell, and a row has one key the catalog does not list.
\* The rows the window takes hold any of TrendCells, the rows before them
\* one of EarlierCells.
\* The cells give windows that lie exactly on a boundary of the tests, where
\* the doubles decide: four samples of 1 and one of 0.9 stand at 2.0
\* standard deviations, 1 to 1.1 is a rise of 10 percent and 1 to 0.9 a
\* fall of 10 percent.
TrendCells == {Num(0), Str(90), Num(100), Num(110)}

EarlierCells == {Num(0), Num(110)}

TrendKeys == Catalog \cup {"vibration"}

TrendRow(cell) == [metric \in TrendKeys |-> cell]

TrendSeries ==
    LET windows == SeqsUpTo(TrendCells, WindowSize)
        earlier == SeqsUpTo(EarlierCells, MaxSeries - WindowSize) \ {<<>>}
        cells == windows \cup {p \o q : p \in earlier,
                                        q \in {w \in windows : Len(w) = WindowSize}}
    IN  {[i \in 1..Len(q) |-> TrendRow(q[i])] : q \in cells}

InitTrend ==
    /\ data \in TrendSeries
    /\ latestValues = IF data = <<>> THEN Null ELSE << data[Len(data)] >>
    /\ hasFetchedValues = (data # <<>>)
    /\ showAlertModal = FALSE
    /\ loading = FALSE
    /\ isExportingPDF = FALSE
    /\ alerts = <<>>
    /\ inflight = <<>>
    /\ observing = FALSE
    /\ overtaken = <<>>
    /\ publisher = "none"
    /\ interval = [cl |-> Null, isExportingPDF |-> FALSE]
    /\ alertEffectPending = FALSE
    /\ pollEffectPending = FALSE
    /\ clock = 0
    /\ lastOp = "mount"
    /\ started = "none"
    /\ passInput = Null
    /\ exporting = 0
    /\ dismissedSince = FALSE
    /\ target = <<>>
    /\ error = FALSE
    /\ dataSource = "Unknown"
    /\ connectionStatus = "Connected to Google Sheet"
    /\ probe = NoProbe
    /\ insights = NoInsights
    /\ catalog = <<>>
    /\ priorPush = FALSE
    /\ dismissed = {}

\* One call analyzeTrend(data, metric).
TrendCall(metric) ==
    /\ probe' = [metric |-> metric, value |-> Undefined,
                 result |-> analyzeTrend(data, metric)]
    /\ catalog' = catalogOfNextCall(catalog \o pushedBy(metric, probe'.result))
    /\ priorPush' = (probe.metric = metric /\ pushedBy(metric, probe.result) # <<>>)
    /\ lastOp' = "analyzeTrend"
    /\ UNCHANGED << insights, dismissed, observing, overtaken, publisher, error, connectionStatus, dataSource,
                    data, loading, isExportingPDF, latestValues,
                    hasFetchedValues, alerts, showAlertModal, inflight,
                    interval, alertEffectPending, pollEffectPending, clock,
                    started, passInput, exporting, dismissedSince, target >>

NextTrend == \E metric \in TrendKeys : TrendCall(metric)

SpecTrend == InitTrend /\ [][NextTrend]_vars

\* -------------------------------------- calculateStatistics over a wide input
\* SpecStats applies calculateStatistics to one stored series whose last row
\* is the latest sample, and renders the eight cards of that sample.  Every
\* key of a row holds the same cell; a cell may be a string that does not
\* parse.  10 and 10.01 have a mean that lies exactly between two
\* hundredths; 2.5 and -3.5 lie exactly between two integers.
StatCells ==
    {Num(-350), Num(250), Num(1000), Num(1001), Num(2000), Num(3000), Str(1504), Text}

StatRow(cell) == [metric \in Catalog |-> cell]

StatSeries ==
    {[i \in 1..Len(q) |-> StatRow(q[i])] : q \in SeqsUpTo(StatCells, MaxStatRows)}

InitStats ==
    /\ data \in StatSeries
    /\ latestValues = IF data = <<>> THEN Null ELSE << data[Len(data)] >>
    /\ hasFetchedValues = (data # <<>>)
    /\ showAlertModal = FALSE
    /\ loading = FALSE
    /\ isExportingPDF = FALSE
    /\ alerts = <<>>
    /\ inflight = <<>>
    /\ observing = FALSE
    /\ overtaken = <<>>
    /\ publisher = "none"
    /\ interval = [cl |-> Null, isExportingPDF |-> FALSE]
    /\ alertEffectPending = FALSE
    /\ pollEffectPending = FALSE
    /\ clock = 0
    /\ lastOp = "mount"
    /\ started = "none"
    /\ passInput = Null
    /\ exporting = 0
    /\ dismissedSince = FALSE
    /\ target = <<>>
    /\ error = FALSE
    /\ dataSource = "Unknown"
    /\ connectionStatus = "Connected to Google Sheet"
    /\ probe = NoProbe
    /\ insights = NoInsights
    /\ catalog = <<>>
    /\ priorPush = FALSE
    /\ dismissed = {}

\* One call calculateStatistics().
StatsCall ==
    /\ probe' = [metric |-> "calculateStatistics", value |-> Undefined,
                 result |-> calculateStatistics(data, latestValues)]
    /\ lastOp' = "calculateStatistics"
    /\ UNCHANGED << insights, catalog, priorPush, dismissed, observing, overtaken, publisher, error, connectionStatus, dataSource,
                    data, loading, isExportingPDF, latestValues,
                    hasFetchedValues, alerts, showAlertModal, inflight,
                    interval, alertEffectPending, pollEffectPending, clock,
                    started, passInput, exporting, dismissedSince, target >>

NextStats ==
    \/ StatsCall
    \/ \E card \in Cards : MetricCard(card.title, card.key, card.precision)

SpecStats == InitStats /\ [][NextStats]_vars

\* The ingestion cycle with the scheduling React guarantees: an effect that
\* is due runs.
FairSpec == Spec /\ WF_vars(AlertEffect) /\ WF_vars(PollingEffect)

\* exportToPDF is an async function whose awaits settle: a timer at 1706,
\* html2canvas captures, each inside the try block, so a started export
\* reaches its finally block.
FairExportSpec == FairSpec /\ WF_vars(\E threw \in BOOLEAN : ExportFinish(threw))

\* ------------------------------------------------------------- properties
Parses(x) == x.t \in {"number", "string"}
OfMetric(q, m) == SelectSeq(q, LAMBDA a : a.metric = m)
Direction(a) ==
    IF a.message \in {"Oil Level LOW ALERT", "Angle LOW ALERT"} THEN "LOW"
    ELSE IF a.message \in {"Oil Level HIGH ALERT", "Angle HIGH ALERT"} THEN "HIGH"
    ELSE "?"
Labels(q) == [i \in 1..Len(q) |-> << q[i].metric, Direction(q[i]) >>]

\* What the two rules of section 4.4 give for a raw value.
ExpectedOil(x) ==
    IF ~Parses(x) \/ x.v = 2000 THEN <<>>
    ELSE << << "Oil Level", IF x.v < 2000 THEN "LOW" ELSE "HIGH" >> >>
ExpectedAngle(x) ==
    IF ~Parses(x) \/ (x.v >= -350 /\ x.v <= 350) THEN <<>>
    ELSE << << "Angle", IF x.v < -350 THEN "LOW" ELSE "HIGH" >> >>
Expected(lv) ==
    ExpectedOil(Field(lv, "oilLevel")) \o ExpectedAngle(Field(lv, "angle"))

AfterRulesPass == lastOp = "checkForCriticalAlerts"

\* C1: after an evaluation pass over a latest sample whose oilLevel parses to
\* v, the list holds no Oil Level alert when v = 20 and exactly one when
\* v # 20, labelled LOW when v < 20 and HIGH when v > 20.
C1_OilLevelRule ==
    (AfterRulesPass /\ latestValues # Null /\ Parses(Field(latestValues, "oilLevel")))
    => LET v == Field(latestValues, "oilLevel").v
           oil == OfMetric(alerts, "Oil Level")
       IN  IF v = 2000 THEN Len(oil) = 0
           ELSE /\ Len(oil) = 1
                /\ Direction(oil[1]) = IF v < 2000 THEN "LOW" ELSE "HIGH"

C1_Witness ==
    /\ AfterRulesPass
    /\ Field(latestValues, "oilLevel") = Num(2001)
    /\ Labels(OfMetric(alerts, "Oil Level")) = << << "Oil Level", "HIGH" >> >>

\* C2: after an evaluation pass over a latest sample whose angle parses to a,
\* there is no Angle alert when -3.5 <= a <= 3.5, exactly one labelled LOW
\* when a < -3.5 and exactly one labelled HIGH when a > 3.5.
C2_AngleRule ==
    (AfterRulesPass /\ latestValues # Null /\ Parses(Field(latestValues, "angle")))
    => LET a == Field(latestValues, "angle").v
           ang == OfMetric(alerts, "Angle")
       IN  IF a >= -350 /\ a <= 350 THEN Len(ang) = 0
           ELSE /\ Len(ang) = 1
                /\ Direction(ang[1]) = IF a < -350 THEN "LOW" ELSE "HIGH"

C2_Witness ==
    /\ AfterRulesPass
    /\ Field(latestValues, "angle") = Num(-351)
    /\ Labels(OfMetric(alerts, "Angle")) = << << "Angle", "LOW" >> >>

AfterPass == lastOp \in {"fetchSuccess", "fetchFailure", "alertEffect"}

\* C3: right after an evaluation pass the queue holds exactly the alerts the
\* two rules produced in that pass, each carrying that pass's stamp, at most
\* one per metric, and a non-empty queue comes with the modal shown.
C3_PassReplacesQueue ==
    AfterPass =>
        /\ Labels(alerts) = Expected(passInput)
        /\ \A i \in 1..Len(alerts) : alerts[i].id.n = clock - 1
        /\ Len(OfMetric(alerts, "Oil Level")) <= 1
        /\ Len(OfMetric(alerts, "Angle")) <= 1
        /\ (Len(alerts) > 0 => showAlertModal)

C3_Witness ==
    /\ lastOp = "alertEffect"
    /\ clock = 4
    /\ Len(alerts) = 2
    /\ showAlertModal

\* C4: in every state with no dismissal since the latest sample was
\* published, the queue is what the two rules give for latestValues.
C4_QueueReflectsLatest ==
    ~dismissedSince => Labels(alerts) = Expected(latestValues)

\* C5: every cycle that publishes a sample is followed by the effect's pass
\* on that sample: the effect that is due runs, and once it has run, with no
\* dismissal since, the queue is what the two rules give for latestValues.
C5_EffectEvaluatesPublished ==
    /\ [](alertEffectPending => <>(lastOp = "alertEffect" /\ passInput = latestValues))
    /\ []((hasFetchedValues /\ ~alertEffectPending /\ ~dismissedSince)
            => Labels(alerts) = Expected(latestValues))

C5_Witness ==
    /\ lastOp = "alertEffect"
    /\ clock = 4
    /\ Field(latestValues, "oilLevel") = Num(10000)
    /\ Field(latestValues, "angle") = Str(210)
    /\ Labels(alerts) = << << "Oil Level", "HIGH" >> >>

\* C6: dismiss-all leaves an empty queue and the modal hidden.
C6_DismissAll ==
    lastOp = "dismissAllAlerts" => (alerts = <<>> /\ ~showAlertModal)

C6_Witness ==
    /\ lastOp = "dismissAllAlerts"
    /\ Len(Expected(latestValues)) = 2
    /\ alerts = <<>>
    /\ ~showAlertModal

InQueue(a) == \E i \in 1..Len(alerts) : alerts[i] = a

\* C7: after the dismiss button of one alert, that alert is no longer queued.
C7_DismissOneRemoves ==
    lastOp = "dismissAlert" => ~InQueue(target[1])

\* C8: while isExportingPDF is true the polling effect starts no
\* fetchGoogleSheetData call, neither on its run nor from its interval.
C8_NoFetchWhileExporting ==
    ~(isExportingPDF /\ started \in {"effect", "interval"})

AfterCard == lastOp = "getMetricAlert" /\ clock > 0 /\ passInput = latestValues

\* C9: getMetricAlert on the value a rule of the pass read returns an alert
\* exactly when that rule queued one, with the same direction, and returns
\* nothing for every other metric.
C9_CardMatchesQueue ==
    AfterCard =>
        IF probe.metric = "Oil Level" /\ probe.value = Field(latestValues, "oilLevel")
        THEN LET oil == OfMetric(alerts, "Oil Level")
             IN  IF probe.result = NoAlert THEN Len(oil) = 0
                 ELSE Len(oil) = 1 /\ oil[1].message = probe.result.message
        ELSE IF probe.metric = "Angle" /\ probe.value = Field(latestValues, "angle")
        THEN LET ang == OfMetric(alerts, "Angle")
             IN  IF probe.result = NoAlert THEN Len(ang) = 0
                 ELSE Len(ang) = 1 /\ ang[1].message = probe.result.message
        ELSE probe.metric \notin {"Oil Level", "Angle"} => probe.result = NoAlert

C9_Witness ==
    /\ AfterCard
    /\ probe.metric = "Angle"
    /\ probe.value = Num(351)
    /\ probe.result.type = "high"
    /\ Labels(OfMetric(alerts, "Angle")) = << << "Angle", "HIGH" >> >>

\* C10: a value that does not parse, a missing field or no latest sample
\* gives no alert for its metric, and the pass still applies the other
\* metric's rule.
C10_UnparsableSuppresses ==
    AfterRulesPass =>
        /\ ~Parses(Field(latestValues, "oilLevel")) =>
              /\ Len(OfMetric(alerts, "Oil Level")) = 0
              /\ Labels(alerts) = ExpectedAngle(Field(latestValues, "angle"))
        /\ ~Parses(Field(latestValues, "angle")) =>
              /\ Len(OfMetric(alerts, "Angle")) = 0
              /\ Labels(alerts) = ExpectedOil(Field(latestValues, "oilLevel"))

C10_Witness ==
    /\ AfterRulesPass
    /\ Field(latestValues, "oilLevel") = Text
    /\ Field(latestValues, "angle") = Num(4000)
    /\ Labels(alerts) = << << "Angle", "HIGH" >> >>

\* ------------------------------------------------- properties: analyzeTrend
AfterTrend == lastOp = "analyzeTrend"

\* The numbers the call read: the probed metric of the last rows of the
\* series, five of them or all when there are fewer.
WindowLength == IF Len(data) < 5 THEN Len(data) ELSE 5
Window == [i \in 1..WindowLength |-> data[Len(data) - WindowLength + i][probe.metric].v]
WindowSum == SumSeq(Window)
WindowLast == Window[WindowLength]
WindowFirst == Window[1]

\* k in tenths, as the specification lists it.
StatedK ==
    CASE probe.metric \in {"temperature", "humidity", "current", "energy"} -> 20
      [] probe.metric \in {"voltage", "oilLevel"} -> 15
      [] probe.metric = "power" -> 25
      [] probe.metric = "angle" -> 12
      [] OTHER -> 20

\* |last - mean| > k * populationStdDev for the window, squared and cleared
\* of its denominators.
BeyondK ==
    LET n == WindowLength
    IN  100 * n * (n * WindowLast - WindowSum) * (n * WindowLast - WindowSum)
          > StatedK * StatedK
              * SumSeq([i \in 1..n |-> (n * Window[i] - WindowSum) * (n * Window[i] - WindowSum)])

\* C11: for every metric and every window, analyzeTrend reports isAbnormal
\* exactly when |last - mean| > k * populationStdDev, with k = 2.0 for
\* temperature, humidity, current and energy, 1.5 for voltage and oilLevel,
\* 2.5 for power, 1.2 for angle and 2.0 for a metric that is not listed.
C11_AbnormalTest ==
    (AfterTrend /\ probe.result # Null) => (probe.result[1].isAbnormal <=> BeyondK)

Insight == probe.result[1]

\* The suggestion without the prediction sentence, when it ends with one.
IsPrediction(line) == line.list = "prediction"
Advice ==
    LET q == Insight.suggestion
    IN  IF IsPrediction(q[Len(q)]) THEN SubSeq(q, 1, Len(q) - 1) ELSE q

\* q is the named list of the probed metric: four lines for high and for
\* low, three for stable, in the order of the catalog.
IsListOf(q, list) ==
    /\ Len(q) = IF list = "stable" THEN 3 ELSE 4
    /\ \A i \in 1..Len(q) :
          q[i].of = probe.metric /\ q[i].list = list /\ q[i].n = i

\* q is one generic line naming the probed metric.
IsGeneric(q) ==
    /\ Len(q) = 1
    /\ q[1].of = probe.metric
    /\ q[1].list \in {"Abnormal increase detected", "Abnormal decrease detected",
                       "levels are stable"}

Listed == probe.metric \in {"temperature", "humidity", "voltage", "current",
                            "oilLevel", "power", "energy", "angle"}

\* C12: the suggestion is the metric's high list when the window is abnormal
\* and its trend is positive, the low list when abnormal and the trend is
\* negative, the stable list when not abnormal; a metric the catalog does
\* not hold gets one generic line and the call still returns.
C12_SuggestionSelection ==
    (AfterTrend /\ probe.result # Null) =>
        /\ Listed =>
              /\ (Insight.isAbnormal /\ WindowLast > WindowFirst) => IsListOf(Advice, "high")
              /\ (Insight.isAbnormal /\ WindowLast < WindowFirst) => IsListOf(Advice, "low")
              /\ ~Insight.isAbnormal => IsListOf(Insight.suggestion, "stable")
        /\ ~Listed => IsGeneric(Advice)

C12_Witness ==
    /\ AfterTrend
    /\ probe.metric = "oilLevel"
    /\ Window = << 110, 110, 110, 110, 90 >>
    /\ Insight.isAbnormal
    /\ Insight.suggestion[1] = Line("oilLevel", "low", 1)

\* |rateOfChange| > 10 for the window: a first sample of 0 gives Infinity
\* for a last sample other than 0 and NaN for a last sample of 0.
StatedSignificant ==
    IF WindowFirst = 0 THEN WindowLast # 0
    ELSE 100 * Abs(WindowLast - WindowFirst) > 10 * Abs(WindowFirst)

\* h tenths of an hour is |100 / rateOfChange| * 24 to one decimal: within
\* half a tenth of 24 * |first| / |last - first|.
StatedHours(h) ==
    LET change == Abs(WindowLast - WindowFirst)
    IN  2 * Abs(h * change - 240 * Abs(WindowFirst)) <= change

Predictions == {i \in 1..Len(Insight.suggestion) : IsPrediction(Insight.suggestion[i])}

\* C13: exactly one sentence, the metric's prediction phrase with
\* |100 / rateOfChange| * 24 hours to one decimal, is appended exactly when
\* the window is abnormal and |rateOfChange| > 10; a window that is not
\* abnormal never gets one.
C13_PredictiveExtension ==
    (AfterTrend /\ probe.result # Null) =>
        IF Insight.isAbnormal /\ StatedSignificant
        THEN /\ Predictions = {Len(Insight.suggestion)}
             /\ LET line == Insight.suggestion[Len(Insight.suggestion)]
                IN  /\ line.of = IF Listed THEN probe.metric ELSE "May require attention in"
                    /\ Len(line.hours) = 1
                    /\ StatedHours(line.hours[1])
        ELSE Predictions = {}

\* C14: a window whose samples are all equal is not abnormal and its
\* suggestion is exactly the metric's stable list.
C14_ZeroVarianceStable ==
    (AfterTrend /\ probe.result # Null /\ \A i \in 1..WindowLength : Window[i] = WindowFirst) =>
        /\ ~Insight.isAbnormal
        /\ IF Listed THEN IsListOf(Insight.suggestion, "stable")
           ELSE IsGeneric(Insight.suggestion)

C14_Witness ==
    /\ AfterTrend
    /\ probe.metric = "angle"
    /\ Window = << 90, 90, 90, 90, 90 >>
    /\ ~Insight.isAbnormal
    /\ Len(Insight.suggestion) = 3

\* C15: analyzeTrend returns null for a missing series and for a series of
\* fewer than two samples, and a TrendInsight for two samples or more.
C15_NullBelowTwo ==
    AfterTrend => (probe.result = Null <=> Len(data) < 2)

C15_Witness ==
    /\ AfterTrend
    /\ Len(data) = 1
    /\ probe.result = Null

\* C16: no window gives a value that is not finite: the rateOfChange label
\* and the hours of the prediction are finite even when the first sample of
\* the window is 0.
C16_AlwaysFinite ==
    (AfterTrend /\ probe.result # Null) =>
        /\ Insight.rateOfChange.k = "finite"
        /\ \A i \in Predictions : Len(Insight.suggestion[i].hours) = 1

\* ------------------------------------------ properties: calculateStatistics
AfterStats == lastOp = "calculateStatistics"

\* The numbers among the cells a series holds for a metric.
Numeric(metric) ==
    {i \in 1..Len(data) : data[i][metric].t \in {"number", "string"}}

StatKey(metric) ==
    CASE metric = "oilLevel" -> "OilLevel"
      [] metric = "temperature" -> "Temperature"
      [] metric = "humidity" -> "Humidity"
      [] metric = "voltage" -> "Voltage"
      [] metric = "current" -> "Current"
      [] metric = "power" -> "Power"
      [] metric = "energy" -> "Energy"
      [] metric = "angle" -> "Angle"

\* C17: for every metric that has a numeric value, calculateStatistics
\* gives the least and the greatest of the numeric values and their
\* arithmetic mean, each to two decimals, with min <= avg <= max; the values
\* 10, 20, 30 give 10.00, 30.00 and 20.00.
C17_Statistics ==
    AfterStats =>
        \A metric \in Catalog :
            LET idx == Numeric(metric)
            IN  IF idx = {} THEN StatKey(metric) \notin DOMAIN probe.result
                ELSE /\ StatKey(metric) \in DOMAIN probe.result
                     /\ LET st == probe.result[StatKey(metric)]
                            total == SumSeq([i \in 1..Len(data) |->
                                        IF i \in idx THEN data[i][metric].v ELSE 0])
                        IN  /\ \E i \in idx : data[i][metric].v = st.min
                            /\ \A i \in idx : data[i][metric].v >= st.min
                            /\ \E i \in idx : data[i][metric].v = st.max
                            /\ \A i \in idx : data[i][metric].v <= st.max
                            /\ 2 * Abs(st.avg * Cardinality(idx) - total) <= Cardinality(idx)
                            /\ st.min <= st.avg /\ st.avg <= st.max

C17_Witness ==
    /\ AfterStats
    /\ [i \in 1..Len(data) |-> data[i].temperature] = << Num(1000), Num(2000), Num(3000) >>
    /\ probe.result["Temperature"].min = 1000
    /\ probe.result["Temperature"].max = 3000
    /\ probe.result["Temperature"].avg = 2000

\* ------------------------------------------------ properties: ingestion
AfterCycle == lastOp \in {"fetchSuccess", "fetchFailure"}

\* C18: the stored series grows by appending only: the series before an
\* ingestion cycle is a prefix of the series after it.
C18_AppendOnly ==
    [][ /\ Len(data) <= Len(data')
        /\ \A i \in 1..Len(data) : data'[i] = data[i] ]_vars

\* C19: after an ingestion cycle, on the success path or the fallback path,
\* that stored two samples or more, insights holds a TrendInsight for each
\* of the eight metrics; an insight is absent only for a series of fewer
\* than two samples.
C19_InsightsForAllMetrics ==
    AfterCycle =>
        \A metric \in Catalog :
            (Len(data) >= 2) <=> (metric \in DOMAIN insights /\ insights[metric] # Null)

\* C20: an evaluation pass whose rules give no alert leaves the queue empty
\* and the modal shown or hidden as it was before the pass.
C20_EmptyPassKeepsModal ==
    [][ ( /\ lastOp' \in {"fetchSuccess", "fetchFailure", "alertEffect"}
          /\ clock' = clock + 1
          /\ Expected(passInput') = <<>> )
        => (alerts' = <<>> /\ showAlertModal' = showAlertModal) ]_vars

C20_Witness ==
    /\ lastOp = "alertEffect"
    /\ clock = 4
    /\ passInput # Null
    /\ Expected(passInput) = <<>>
    /\ alerts = <<>>
    /\ showAlertModal

\* ------------------------------------------------ analyzeTrend, continued
\* The rows of the series the window is taken from.
WindowRows == SubSeq(data, Len(data) - WindowLength + 1, Len(data))

\* Two cells to put in place of a row: one of them differs from the row.
OtherCells == {Num(0), Num(200)}

\* The series with the row at place i replaced by a row of the given cell.
WithRow(i, cell) == [data EXCEPT ![i] = TrendRow(cell)]

\* C21: for a series of two samples or more, analyzeTrend reads only the
\* last min(5, n) samples: the call on those rows alone, and the call on
\* any series that differs only in a row before them, return the whole
\* result of the call on the series, and trend is the last sample of the
\* window minus its first.
C21_WindowOnly ==
    (AfterTrend /\ probe.result # Null) =>
        /\ Insight.trend = [nan |-> FALSE, v |-> WindowLast - WindowFirst]
        /\ analyzeTrend(WindowRows, probe.metric) = probe.result
        /\ \A i \in 1..(Len(data) - WindowLength) : \A cell \in OtherCells :
              analyzeTrend(WithRow(i, cell), probe.metric) = probe.result

C21_Witness ==
    /\ AfterTrend
    /\ Len(data) = 6
    /\ data[1][probe.metric] = Num(110)
    /\ Window = << 0, 0, 0, 0, 100 >>
    /\ Insight.trend.v = 100
    /\ Insight.isAbnormal

\* C22: the catalog is built anew by every call, so no call alters what a
\* later call finds: after any calls, also ones that appended a predictive
\* sentence, a further call on the same window and metric returns the
\* suggestion this call returned, which is one list of the catalog as the
\* literal gives it, followed by at most one predictive sentence.
C22_CatalogUnaltered ==
    /\ catalog = <<>>
    /\ (AfterTrend /\ probe.result # Null) =>
          /\ analyzeTrend(data, probe.metric) = probe.result
          /\ Cardinality(Predictions) <= 1
          /\ Listed => \E list \in {"high", "low", "stable"} : IsListOf(Advice, list)

C22_Witness ==
    /\ AfterTrend
    /\ priorPush
    /\ probe.metric = "voltage"
    /\ Window = << 110, 110, 110, 110, 90 >>
    /\ Len(Insight.suggestion) = 5
    /\ IsPrediction(Insight.suggestion[5])
    /\ IsListOf(Advice, "low")

\* -------------------------------------------------- dismissal, continued
\* The rules give an alert of the metric for the sample.
Breaches(lv, metric) ==
    \E i \in 1..Len(Expected(lv)) : Expected(lv)[i][1] = metric

\* The effect's pass on the first sample published after a dismissal.
SupersedingPass == lastOp = "alertEffect" /\ dismissed # {}

\* C23: after dismiss-all or dismiss-one, the sample published next is
\* followed by the effect's evaluation pass, and for each metric whose
\* threshold that sample breaches, the metric of a dismissed alert among
\* them, the pass leaves an alert of the metric in the queue whose
\* identifier carries the stamp of no dismissed alert, with the modal shown.
C23_DismissedSuperseded ==
    /\ []((alertEffectPending /\ dismissed # {}) => <>SupersedingPass)
    /\ [](SupersedingPass =>
            \A metric \in {"Oil Level", "Angle"} :
                Breaches(latestValues, metric) =>
                    /\ \E i \in 1..Len(alerts) :
                          /\ alerts[i].metric = metric
                          /\ alerts[i].id.n \notin dismissed
                    /\ showAlertModal)

C23_Witness ==
    /\ SupersedingPass
    /\ clock = 4
    /\ dismissed = {1}
    /\ Labels(OfMetric(alerts, "Oil Level")) = << << "Oil Level", "LOW" >> >>
    /\ alerts[1].id.n = 3
    /\ showAlertModal

\* C24: whenever dismissAlert hides the modal, the queue is empty after it.
C24_HiddenOnlyWhenEmpty ==
    (lastOp = "dismissAlert" /\ ~showAlertModal) => alerts = <<>>

\* C25: a cycle that publishes a sample breaching neither threshold does
\* not turn the modal from hidden to shown.
C25_CleanSampleKeepsModalHidden ==
    [][(/\ lastOp' \in {"fetchSuccess", "fetchFailure"}
        /\ Expected(latestValues') = <<>>
        /\ ~showAlertModal) => ~showAlertModal']_vars

\* --------------------------------------------------- cards, continued
AfterMetricCard == lastOp = "MetricCard" /\ clock > 0 /\ passInput = latestValues

\* C26: once the pass on the latest sample has run, the Oil Level card and
\* the Angle card, which hand formatValue of their field to getMetricAlert,
\* show an alert exactly when the queue holds an alert of their metric, of
\* the same direction.
C26_CardAgreesWithQueue ==
    AfterMetricCard =>
        LET queued == OfMetric(alerts, probe.metric)
        IN  IF probe.result = NoAlert THEN Len(queued) = 0
            ELSE Len(queued) = 1 /\ queued[1].message = probe.result.message

\* ---------------------------------------------------- overlapping fetches
\* C27: when fetchGoogleSheetData calls overlap, what is published once all
\* of them have completed is the result of the call started last: the call
\* that published last was not one that a later call had completed before.
C27_LastStartedWins ==
    inflight = <<>> => publisher # "overtaken"

\* ------------------------------------------------------------- PDF export
\* The bound on the calls in flight never holds up the polling effect.
PollingEffectHasRoom == pollEffectPending => Len(inflight) < MaxInflight

\* C28: every export that set isExportingPDF to true sets it back to false,
\* whether the report was saved or a step threw.
C28_ExportEnds ==
    /\ [](lastOp \in {"exportSaved", "exportThrew"} => ~isExportingPDF)
    /\ (exporting > 0) ~> (~isExportingPDF /\ exporting = 0)

C28_Witness ==
    /\ lastOp = "exportThrew"
    /\ exporting = 0
    /\ ~isExportingPDF
    /\ pollEffectPending

\* ------------------------------------------------ analyzeTrend, edge cases
\* C29: a window that is abnormal and whose last sample equals its first
\* (trend exactly 0) gets the metric's low list, neither the high list nor
\* the stable one.
C29_ZeroTrendIsLow ==
    (AfterTrend /\ probe.result # Null /\ BeyondK /\ WindowLast = WindowFirst) =>
        /\ Insight.isAbnormal
        /\ Insight.trend = [nan |-> FALSE, v |-> 0]
        /\ IF Listed THEN IsListOf(Advice, "low")
           ELSE Advice = << [of |-> probe.metric, list |-> "Abnormal decrease detected",
                             n |-> 1, hours |-> Null] >>

C29_Witness ==
    /\ AfterTrend
    /\ probe.metric = "angle"
    /\ Window = << 110, 0, 0, 0, 110 >>
    /\ Insight.isAbnormal
    /\ IsListOf(Insight.suggestion, "low")

\* C30: a series of exactly two samples is never abnormal: its suggestion is
\* the stable list with no predictive sentence, however large the rate of
\* change between the two.
C30_TwoSamplesStable ==
    (AfterTrend /\ Len(data) = 2) =>
        /\ probe.result # Null
        /\ ~Insight.isAbnormal
        /\ Predictions = {}
        /\ IF Listed THEN IsListOf(Insight.suggestion, "stable")
           ELSE IsGeneric(Insight.suggestion) /\ Insight.suggestion[1].list = "levels are stable"

C30_Witness ==
    /\ AfterTrend
    /\ Len(data) = 2
    /\ probe.metric = "angle"
    /\ Window = << 0, 110 >>
    /\ Insight.rateOfChange.k = "Infinity"
    /\ ~Insight.isAbnormal
    /\ Len(Insight.suggestion) = 3

====
